---- MODULE Spec2Model ----
(***************************************************************************)
(* A state-machine model of the lung-nodule training notebook that is      *)
(* stored in src/frontend/lung_capsnet/src/components/Home.jsx (lines      *)
(* 166-681 of that file are the notebook):                                 *)
(*                                                                         *)
(*   load_nodule_data  - the scan / nodule extraction loop (lines 205-271) *)
(*   main              - the training loop with early stopping and the     *)
(*                       best-weights snapshot (lines 556-668)             *)
(*                                                                         *)
(* LoadSpec is the specification of load_nodule_data, Spec the one of the  *)
(* training loop of main().  Each leaves the other's variables alone.      *)
(***************************************************************************)
EXTENDS Integers, Sequences, FiniteSets, TLC

(***************************************************************************)
(* Bounds of the model.                                                    *)
(***************************************************************************)
\* The largest number of annotation clusters scan.cluster_annotations()
\* returns for one scan.
MaxNodules == 1

\* The number of batches train_loader and val_loader yield per epoch
\* (len(dataset) / 32, rounded up).
TrainBatches == 2

ValBatches == 2

\* num_epochs = 100 and patience = 15 in main().  The loop is the same for
\* every pair of values; the model runs it with small ones so that every
\* sequence of validation losses is enumerated.
num_epochs == 7

patience == 3

(***************************************************************************)
(* Program constants.                                                      *)
(***************************************************************************)
\* CosineAnnealingWarmRestarts(optimizer, T_0=5, T_mult=1)
T_0 == 5

\* load_nodule_data(max_scans=400, ...), and main() passes max_scans=400.
DefaultMaxScans == 400

\* len(nodule_patch.shape) is compared with 3.
VolumeNdim == 3

\* label = 1 if malignancy >= 3 else 0
MalignancyThreshold == 3

(***************************************************************************)
(* Values.                                                                 *)
(***************************************************************************)
\* Python's None, as the value of anno.malignancy of an annotation that
\* carries no rating.  Ratings are positive, so a negative number is free.
None == 0 - 1

\* The sum of a sequence of numbers.
RECURSIVE SeqSum(_)
SeqSum(s) ==
    IF s = <<>> THEN 0 ELSE Head(s) + SeqSum(Tail(s))

Last(s) == s[Len(s)]

Min(a, b) == IF a <= b THEN a ELSE b

(***************************************************************************)
(* Inputs of load_nodule_data.                                             *)
(***************************************************************************)
\* The result of pl.query(pl.Scan).all(): the scans in query order, each
\* stood for by its scan.id.  An id may occur more than once.
ScanLists ==
    { <<>>, <<1>>, <<1, 1>>, <<1, 2>>, <<2, 1, 2>>, <<1, 2, 3, 4>> }

\* The values of the max_scans argument: the default that main() passes, and
\* a small one that cuts the longer scan lists.
MaxScansArgs == {2, DefaultMaxScans}

\* The malignancy attributes of the annotations of one nodule, in order.
RatingLists ==
    { <<None>>, <<None, None>>, <<2>>, <<3>>, <<2, 3>>, <<2, 4>>,
      <<None, 4>>, <<5, None, 1>> }

\* What np.mean([anno.centroid ...], axis=0) holds: three finite
\* coordinates, at least one NaN, or at least one infinity and no NaN.
CentroidKinds == {"finite", "nan", "inf"}

\* One annotation cluster as the loop body sees it: the ratings of its
\* annotations, the kind of its averaged centroid, and whether a statement
\* of the try body after the centroid test (the crop, the indexing of the
\* central slice, resize, the normalisation) raises an Exception.
NoduleKinds ==
    [ratings : RatingLists, centroid : CentroidKinds, raises : BOOLEAN]

\* The loop variable `nodule` before the first nodule is bound to it.
NoNodule == [ratings |-> <<>>, centroid |-> "finite", raises |-> FALSE]

VARIABLES
    \* ---- load_nodule_data ----
    scans,                \* scans = pl.query(pl.Scan).all()
    max_scans,            \* the max_scans argument
    scan_idx,             \* how many of scans[:max_scans] the for loop has passed
    lpc,                  \* "scan" | "nodule" | "returned" | "raised"
    processed_scan_ids,   \* processed_scan_ids = set()
    stats,                \* the five counters
    nodule_images,        \* the patches appended so far
    labels,               \* the labels appended so far
    n_clusters,           \* len(scan.cluster_annotations()) of the current scan
    nodule_i,             \* how many clusters of the current scan were processed
    nodule,               \* the loop variable `nodule`
    all_valid,            \* history variable: every nodule processed so far had a
                          \* rating, a finite centroid and a crop that raised nothing
    \* ---- main ----
    pc,                   \* "epoch" | "train" | "validate" | "after_loop" | "done"
    epoch,                \* the loop variable of `for epoch in range(num_epochs)`
    batch,                \* how many batches of the running loader loop are done
    weights,              \* model.state_dict(): the live parameters
    best_model_wts,       \* the snapshot
    best_loss,
    epochs_no_improve,
    total_loss,
    total_correct,
    train_loss,
    train_acc,
    val_loss,
    val_correct,
    history,
    T_cur,                \* the scheduler's position, which fixes the learning rate
    eval_wts,             \* the parameters evaluate_model() ran with
    saved,                \* the parameters torch.save() wrote
    \* ---- main: class weights, and margin_loss ----
    y_train,              \* the training labels
    wpc,                  \* "sampler" | "class_weights" | "loss" | "called" | "raised"
    weight,               \* weight = 1. / class_sample_count
    samples_weight,       \* the weights handed to WeightedRandomSampler
    class_weights,        \* the dict {class: 1 / count}
    y_true,               \* the targets of the last margin_loss call
    y_pred,               \* the class outputs of the last margin_loss call
    loss,                 \* what the last margin_loss call returned
    \* ---- CapsNetWithDecoder.dynamic_routing ----
    u_hat,                \* the argument: a vector for each (input, output) capsule
    routing_iters,        \* self.routing_iters
    rpc,                  \* "for" | "softmax" | "sum" | "squash" | "if" | "returned"
    iteration,            \* the loop variable of `for iteration in range(...)`
    b_ij,                 \* the routing logits
    c_ij,                 \* the coupling coefficients
    s_j,                  \* the weighted sums
    v_j,                  \* the squashed outputs
    routed,               \* what dynamic_routing returned
    \* ---- Home ----
    file,                 \* useState(null): the selected file
    prediction,           \* useState(null): the prediction on display
    loading,              \* useState(false)
    requests,             \* the files of the axios.post calls not yet settled
    settled               \* history variable: how the last settled call ended,
                          \* "none" | "fulfilled" | "rejected"

loadVars ==
    << scans, max_scans, scan_idx, lpc, processed_scan_ids, stats,
       nodule_images, labels, n_clusters, nodule_i, nodule, all_valid >>

trainVars ==
    << pc, epoch, batch, weights, best_model_wts, best_loss, epochs_no_improve,
       total_loss, total_correct, train_loss, train_acc, val_loss, val_correct,
       history, T_cur, eval_wts, saved >>

lossVars ==
    << y_train, wpc, weight, samples_weight, class_weights, y_true, y_pred, loss >>

routeVars ==
    << u_hat, routing_iters, rpc, iteration, b_ij, c_ij, s_j, v_j, routed >>

formVars == << file, prediction, loading, requests, settled >>

\* What neither load_nodule_data nor the training loop touches.
restVars == << lossVars, routeVars, formVars >>

\* What the class weights and margin_loss do not touch.
notLossVars == << loadVars, trainVars, routeVars, formVars >>

\* What dynamic_routing does not touch.
notRouteVars == << loadVars, trainVars, lossVars, formVars >>

\* What the Home component does not touch.
notFormVars == << loadVars, trainVars, lossVars, routeVars >>

vars == << loadVars, trainVars, restVars >>

(***************************************************************************)
(* load_nodule_data                                                        *)
(***************************************************************************)
\* stats = {'total_scans': 0, ...}
ZeroStats ==
    [ total_scans |-> 0, total_nodules |-> 0, benign_nodules |-> 0,
      malignant_nodules |-> 0, discarded_nodules |-> 0 ]

\* scans[:max_scans]
ScanSlice == SubSeq(scans, 1, Min(Len(scans), max_scans))

\* if scan.id in processed_scan_ids: continue
AlreadyProcessed(id) == id \in processed_scan_ids

\* processed_scan_ids after a scan was taken up: no statement of the
\* function adds to the set.
ProcessedAfter(id) == processed_scan_ids

\* malignancy_scores = [anno.malignancy for anno in nodule
\*                      if anno.malignancy is not None]
IsRated(r) == r # None

MalignancyScores(n) == SelectSeq(n.ratings, IsRated)

\* Mutant of NoduleLabel: `>` for `>=`.
NoduleLabelStrict(scores) ==
    IF SeqSum(scores) > MalignancyThreshold * Len(scores) THEN 1 ELSE 0

\* malignancy = np.mean(malignancy_scores); label = 1 if malignancy >= 3 else 0.
\* The mean of k > 0 scores is at least 3 exactly when their sum is at least 3k.
NoduleLabel(scores) ==
    IF SeqSum(scores) >= MalignancyThreshold * Len(scores) THEN 1 ELSE 0

\* if np.any(np.isnan(coords)): an infinite coordinate is not NaN.
CentroidIsNan(n) == n.centroid = "nan"

\* Mutant of PatchNdim: the shape of the central slice is tested.
SliceNdim(n) == VolumeNdim - 1

\* len(nodule_patch.shape): volume[a:b, c:d, e:f] keeps the three axes of the
\* volume whatever the ranges are.
PatchNdim(n) == VolumeNdim

\* Mutant of NoduleOutcome: the appends come before the statement that raises.
NoduleOutcomeAppendFirst(n) ==
    IF MalignancyScores(n) = <<>> THEN "discard"
    ELSE IF CentroidIsNan(n) THEN "discard"
    ELSE IF PatchNdim(n) < VolumeNdim THEN "discard"
    ELSE "keep"

\* The path one nodule takes through the try body: "discard" for the three
\* guarded `continue`s, "except" for the handler, "keep" for the appends.
NoduleOutcome(n) ==
    IF MalignancyScores(n) = <<>> THEN "discard"
    ELSE IF CentroidIsNan(n) THEN "discard"
    ELSE IF n.raises THEN "except"
    ELSE IF PatchNdim(n) < VolumeNdim THEN "discard"
    ELSE "keep"

\* The nodules the end-to-end scenario is about: at least one rating, a
\* finite centroid inside the volume, a crop that is not empty (so that
\* neither the indexing of the central slice nor resize raises).
ValidNodule(n) ==
    /\ \E i \in DOMAIN n.ratings : n.ratings[i] # None
    /\ n.centroid = "finite"
    /\ ~n.raises

\* The patch that is appended: a function of the scan's volume and of the
\* nodule, stood for by the place of the nodule in the iteration.
Patch(scanPos, nodPos) == << scanPos, nodPos >>

LoadStart ==
    /\ scans \in ScanLists
    /\ max_scans \in MaxScansArgs
    /\ scan_idx = 0
    /\ lpc = "scan"
    /\ processed_scan_ids = {}
    /\ stats = ZeroStats
    /\ nodule_images = <<>>
    /\ labels = <<>>
    /\ n_clusters = 0
    /\ nodule_i = 0
    /\ nodule = NoNodule
    /\ all_valid = TRUE

\* One pass through the head of `for scan_idx, scan in enumerate(...)`:
\* the duplicate test, the scan counter, scan.to_volume() and
\* scan.cluster_annotations().  Both calls are outside the try: when one
\* raises, the exception leaves load_nodule_data.
BeginScan ==
    /\ lpc = "scan"
    /\ scan_idx < Len(ScanSlice)
    /\ LET id == ScanSlice[scan_idx + 1] IN
       IF AlreadyProcessed(id)
       THEN /\ scan_idx' = scan_idx + 1
            /\ UNCHANGED << lpc, processed_scan_ids, stats, n_clusters, nodule_i >>
       ELSE /\ stats' = [stats EXCEPT !.total_scans = @ + 1]
            /\ processed_scan_ids' = ProcessedAfter(id)
            /\ \E ok \in BOOLEAN :
                 IF ok
                 THEN /\ \E n \in 0..MaxNodules : n_clusters' = n
                      /\ nodule_i' = 0
                      /\ lpc' = "nodule"
                 ELSE /\ lpc' = "raised"
                      /\ UNCHANGED << n_clusters, nodule_i >>
            /\ UNCHANGED scan_idx
    /\ UNCHANGED << scans, max_scans, nodule_images, labels, nodule, all_valid >>
    /\ UNCHANGED << trainVars, restVars >>

\* Mutant of ProcessNodule: the guarded `continue`s and the handler leave
\* discarded_nodules alone.
ProcessNoduleUncounted ==
    /\ lpc = "nodule"
    /\ nodule_i < n_clusters
    /\ \E n \in NoduleKinds :
         /\ nodule' = n
         /\ nodule_i' = nodule_i + 1
         /\ all_valid' = (all_valid /\ ValidNodule(n))
         /\ LET counted == [stats EXCEPT !.total_nodules = @ + 1]
                outcome == NoduleOutcome(n)
                label   == NoduleLabel(MalignancyScores(n))
            IN  IF outcome = "keep"
                THEN /\ nodule_images' =
                            Append(nodule_images, Patch(scan_idx + 1, nodule_i + 1))
                     /\ labels' = Append(labels, label)
                     /\ stats' =
                          IF label = 1
                          THEN [counted EXCEPT !.malignant_nodules = @ + 1]
                          ELSE [counted EXCEPT !.benign_nodules = @ + 1]
                ELSE /\ stats' = counted
                     /\ UNCHANGED << nodule_images, labels >>
    /\ UNCHANGED << scans, max_scans, scan_idx, lpc, processed_scan_ids, n_clusters >>
    /\ UNCHANGED << trainVars, restVars >>

\* One pass through the body of `for nodule in scan.cluster_annotations()`.
ProcessNodule ==
    /\ lpc = "nodule"
    /\ nodule_i < n_clusters
    /\ \E n \in NoduleKinds :
         /\ nodule' = n
         /\ nodule_i' = nodule_i + 1
         /\ all_valid' = (all_valid /\ ValidNodule(n))
         /\ LET counted == [stats EXCEPT !.total_nodules = @ + 1]
                outcome == NoduleOutcome(n)
                label   == NoduleLabel(MalignancyScores(n))
            IN  IF outcome = "keep"
                THEN /\ nodule_images' =
                            Append(nodule_images, Patch(scan_idx + 1, nodule_i + 1))
                     /\ labels' = Append(labels, label)
                     /\ stats' =
                          IF label = 1
                          THEN [counted EXCEPT !.malignant_nodules = @ + 1]
                          ELSE [counted EXCEPT !.benign_nodules = @ + 1]
                ELSE /\ stats' = [counted EXCEPT !.discarded_nodules = @ + 1]
                     /\ UNCHANGED << nodule_images, labels >>
    /\ UNCHANGED << scans, max_scans, scan_idx, lpc, processed_scan_ids, n_clusters >>
    /\ UNCHANGED << trainVars, restVars >>

\* The inner for loop is exhausted: on to the next scan.
EndScan ==
    /\ lpc = "nodule"
    /\ nodule_i = n_clusters
    /\ scan_idx' = scan_idx + 1
    /\ lpc' = "scan"
    /\ UNCHANGED << scans, max_scans, processed_scan_ids, stats, nodule_images,
                    labels, n_clusters, nodule_i, nodule, all_valid >>
    /\ UNCHANGED << trainVars, restVars >>

\* The outer for loop is exhausted: np.array(...) of both lists, the
\* printed statistics, and `return nodule_images, labels`.
ReturnData ==
    /\ lpc = "scan"
    /\ scan_idx = Len(ScanSlice)
    /\ lpc' = "returned"
    /\ UNCHANGED << scans, max_scans, scan_idx, processed_scan_ids, stats,
                    nodule_images, labels, n_clusters, nodule_i, nodule, all_valid >>
    /\ UNCHANGED << trainVars, restVars >>

LoadNext ==
    \/ BeginScan
    \/ ProcessNodule
    \/ EndScan
    \/ ReturnData

(***************************************************************************)
(* main: the training loop                                                 *)
(***************************************************************************)
\* A loss that is not a number (the parameters diverged).  Losses are not
\* negative, so a negative number is free.
NaN == 0 - 2

\* What loss.item() * data.size(0) of one validation batch can be.
BatchLosses == {NaN, 0, 1}

\* float('inf'): above every finite validation loss of the model.
Inf == ValBatches + 1

\* Python's `a < b` on floats: False as soon as one side is NaN.
Less(a, b) == a # NaN /\ b # NaN /\ a < b

\* Python's `a + b` on floats: NaN as soon as one side is NaN.
Plus(a, b) == IF a = NaN \/ b = NaN THEN NaN ELSE a + b

\* The training metrics of one batch.  They depend on the live parameters
\* and steer nothing in main(); the model gives each one value per version
\* of the parameters.
TrainBatchLoss(w) == w % 2

BatchCorrect(w) == (w + 1) % 2

\* Mutant of OptimizerStep: optimizer.step() is never called.
NoOptimizerStep(w) == w

\* optimizer.step(): every step leaves a new version of the parameters.
OptimizerStep(w) == w + 1

\* copy.deepcopy(model.state_dict()): the value of the live parameters at
\* the time of the call.
DeepCopy(w) == w

\* Mutant of LoadStateDict: the snapshot is not loaded.
KeepLiveWeights(live, snapshot) == live

\* model.load_state_dict(best_model_wts): the parameters the model holds
\* afterwards.
LoadStateDict(live, snapshot) == snapshot

\* val_loss /= len(val_dataset) and total_loss / len(train_dataset): the
\* model counts losses in units of 1 / len(dataset), which keeps their order.
PerSample(total) == total

\* Mutant of Improves: `<=` for `<`.
ImprovesOrTies(v, best) == v # NaN /\ best # NaN /\ v <= best

\* if val_loss < best_loss:
Improves(v, best) == Less(v, best)

\* Mutant of StallAfter: the counter is never reset.
StallAfterNoReset(improved, n) == n + 1

\* epochs_no_improve = 0 after an improvement, epochs_no_improve += 1 otherwise.
StallAfter(improved, n) == IF improved THEN 0 ELSE n + 1

\* Mutant of ShouldStop: `>` for `>=`.
ShouldStopLate(n) == n > patience

\* if epochs_no_improve >= patience: break
ShouldStop(n) == n >= patience

\* Mutant of RangeHasNext: range(num_epochs + 1).
RangeHasNextOneMore(e) == e + 1 < num_epochs + 1

\* for epoch in range(num_epochs): whether the range yields a value after e.
RangeHasNext(e) == e + 1 < num_epochs

\* scheduler.step(epoch + 1) of CosineAnnealingWarmRestarts with T_mult = 1:
\* T_cur = epoch % T_0, and the learning rate is a function of T_cur.
SchedulerStep(e) == e % T_0

\* history = {'train_loss': [], ...}
EmptyHistory ==
    [ train_loss |-> <<>>, val_loss |-> <<>>, train_accuracy |-> <<>>,
      val_accuracy |-> <<>>, learning_rate |-> <<>> ]

\* Mutant of Record: the learning rate is not appended.
RecordWithoutLr(h, tl, vl, ta, va, lr) ==
    [ train_loss     |-> Append(h.train_loss, tl),
      val_loss       |-> Append(h.val_loss, vl),
      train_accuracy |-> Append(h.train_accuracy, ta),
      val_accuracy   |-> Append(h.val_accuracy, va),
      learning_rate  |-> h.learning_rate ]

\* The five appends of one epoch.
Record(h, tl, vl, ta, va, lr) ==
    [ train_loss     |-> Append(h.train_loss, tl),
      val_loss       |-> Append(h.val_loss, vl),
      train_accuracy |-> Append(h.train_accuracy, ta),
      val_accuracy   |-> Append(h.val_accuracy, va),
      learning_rate  |-> Append(h.learning_rate, lr) ]

\* main() up to the for loop.
TrainStart ==
    /\ pc = "epoch"
    /\ epoch = 0 - 1
    /\ batch = 0
    /\ weights = 0
    /\ best_model_wts = DeepCopy(0)
    /\ best_loss = Inf
    /\ epochs_no_improve = 0
    /\ total_loss = 0
    /\ total_correct = 0
    /\ train_loss = 0
    /\ train_acc = 0
    /\ val_loss = 0
    /\ val_correct = 0
    /\ history = EmptyHistory
    /\ T_cur = 0
    /\ eval_wts = None
    /\ saved = None

\* load_nodule_data has returned when the training loop runs.
LoadDone ==
    /\ scans = <<>>
    /\ max_scans = DefaultMaxScans
    /\ scan_idx = 0
    /\ lpc = "returned"
    /\ processed_scan_ids = {}
    /\ stats = ZeroStats
    /\ nodule_images = <<>>
    /\ labels = <<>>
    /\ n_clusters = 0
    /\ nodule_i = 0
    /\ nodule = NoNodule
    /\ all_valid = TRUE

\* The for loop yields the next epoch: model.train() and
\* total_loss, total_correct = 0.0, 0
StartEpoch ==
    /\ pc = "epoch"
    /\ RangeHasNext(epoch)
    /\ epoch' = epoch + 1
    /\ total_loss' = 0
    /\ total_correct' = 0
    /\ batch' = 0
    /\ pc' = "train"
    /\ UNCHANGED << weights, best_model_wts, best_loss, epochs_no_improve,
                    train_loss, train_acc, val_loss, val_correct, history,
                    T_cur, eval_wts, saved >>
    /\ UNCHANGED << loadVars, restVars >>

\* One batch of train_loader: forward, loss, backward, optimizer.step().
TrainBatch ==
    /\ pc = "train"
    /\ batch < TrainBatches
    /\ weights' = OptimizerStep(weights)
    /\ total_loss' = total_loss + TrainBatchLoss(weights)
    /\ total_correct' = total_correct + BatchCorrect(weights)
    /\ batch' = batch + 1
    /\ UNCHANGED << pc, epoch, best_model_wts, best_loss, epochs_no_improve,
                    train_loss, train_acc, val_loss, val_correct, history,
                    T_cur, eval_wts, saved >>
    /\ UNCHANGED << loadVars, restVars >>

\* train_loader is exhausted: train_loss, train_acc, model.eval() and
\* val_loss, val_correct = 0.0, 0
EndTrain ==
    /\ pc = "train"
    /\ batch = TrainBatches
    /\ train_loss' = PerSample(total_loss)
    /\ train_acc' = PerSample(total_correct)
    /\ val_loss' = 0
    /\ val_correct' = 0
    /\ batch' = 0
    /\ pc' = "validate"
    /\ UNCHANGED << epoch, weights, best_model_wts, best_loss, epochs_no_improve,
                    total_loss, total_correct, history, T_cur, eval_wts, saved >>
    /\ UNCHANGED << loadVars, restVars >>

\* One batch of val_loader under torch.no_grad().
ValBatch ==
    /\ pc = "validate"
    /\ batch < ValBatches
    /\ \E l \in BatchLosses : val_loss' = Plus(val_loss, l)
    /\ val_correct' = val_correct + BatchCorrect(weights)
    /\ batch' = batch + 1
    /\ UNCHANGED << pc, epoch, weights, best_model_wts, best_loss,
                    epochs_no_improve, total_loss, total_correct, train_loss,
                    train_acc, history, T_cur, eval_wts, saved >>
    /\ UNCHANGED << loadVars, restVars >>

\* val_loader is exhausted: the rest of the loop body.  The five appends,
\* the comparison with best_loss, the patience test, and, unless the loop
\* breaks, scheduler.step(epoch + 1).
EndEpoch ==
    /\ pc = "validate"
    /\ batch = ValBatches
    /\ LET v        == PerSample(val_loss)
           va       == PerSample(val_correct)
           improved == Improves(v, best_loss)
           stall    == StallAfter(improved, epochs_no_improve)
       IN  /\ val_loss' = v
           /\ history' = Record(history, train_loss, v, train_acc, va, T_cur)
           /\ best_loss' = IF improved THEN v ELSE best_loss
           /\ best_model_wts' =
                  IF improved THEN DeepCopy(weights) ELSE best_model_wts
           /\ epochs_no_improve' = stall
           /\ IF ShouldStop(stall)
              THEN /\ pc' = "after_loop"
                   /\ UNCHANGED T_cur
              ELSE /\ pc' = "epoch"
                   /\ T_cur' = SchedulerStep(epoch + 1)
    /\ UNCHANGED << epoch, batch, weights, total_loss, total_correct, train_loss,
                    train_acc, val_correct, eval_wts, saved >>
    /\ UNCHANGED << loadVars, restVars >>

\* range(num_epochs) is exhausted.
ExhaustEpochs ==
    /\ pc = "epoch"
    /\ ~RangeHasNext(epoch)
    /\ pc' = "after_loop"
    /\ UNCHANGED << epoch, batch, weights, best_model_wts, best_loss,
                    epochs_no_improve, total_loss, total_correct, train_loss,
                    train_acc, val_loss, val_correct, history, T_cur, eval_wts,
                    saved >>
    /\ UNCHANGED << loadVars, restVars >>

\* After the loop: model.load_state_dict(best_model_wts), evaluate_model()
\* (model.eval() and torch.no_grad(): it reads the parameters), and
\* torch.save(model.state_dict(), ...).
FinishTraining ==
    /\ pc = "after_loop"
    /\ weights' = LoadStateDict(weights, best_model_wts)
    /\ eval_wts' = weights'
    /\ saved' = weights'
    /\ pc' = "done"
    /\ UNCHANGED << epoch, batch, best_model_wts, best_loss, epochs_no_improve,
                    total_loss, total_correct, train_loss, train_acc, val_loss,
                    val_correct, history, T_cur >>
    /\ UNCHANGED << loadVars, restVars >>

(***************************************************************************)
(* main: the sampler weights and the class weights; margin_loss.           *)
(* Predictions and margins are counted in tenths, weights and losses are   *)
(* fractions << numerator, denominator >> in lowest terms.                 *)
(***************************************************************************)
\* num_classes=2: the width of class_output, y_pred.size(1).
NumClasses == 2

Classes == 0..(NumClasses - 1)

\* 1.0 in tenths: the upper clamp of y_pred, and the unit.
One == 10

\* m_plus=0.9 in tenths.
MPlus == 9

\* m_minus=0.1 in tenths.
MMinus == 1

\* lambda_=0.5 in tenths.
Lambda_ == 5

\* The longest training label array that is tried.
MaxTrain == 4

\* The largest batch that is tried.
MaxBatch == 2

\* y_train: a non-empty array of labels.
TrainLabelSets == UNION { [1..n -> Classes] : n \in 1..MaxTrain }

\* The entries of class_output that are tried: below the clamp, between
\* the margins, above the clamp.
PredValues == { 0 - 3, 4, 12 }

RECURSIVE GCD(_, _)
GCD(a, b) == IF b = 0 THEN a ELSE GCD(b, a % b)

\* The fraction n / d.
Rat(n, d) == << n \div GCD(n, d), d \div GCD(n, d) >>

RatAdd(a, b) == Rat(a[1] * b[2] + b[1] * a[2], a[2] * b[2])

RatMul(a, b) == Rat(a[1] * b[1], a[2] * b[2])

RECURSIVE RatSum(_)
RatSum(s) == IF s = <<>> THEN Rat(0, 1) ELSE RatAdd(s[1], RatSum(Tail(s)))

\* x.mean() of a one-dimensional x.
RatMean(s) == RatMul(RatSum(s), Rat(1, Len(s)))

Range(s) == { s[i] : i \in DOMAIN s }

RECURSIVE Sorted(_)
Sorted(S) ==
    IF S = {} THEN <<>>
    ELSE LET m == CHOOSE x \in S : \A y \in S : x <= y
         IN  << m >> \o Sorted(S \ {m})

\* np.unique(y): the values of y, ascending.
Unique(y) == Sorted(Range(y))

\* np.sum(y == t)
SumEqual(y, t) == Cardinality({ i \in DOMAIN y : y[i] = t })

\* class_sample_count, and counts of np.unique(y, return_counts=True): one
\* entry for each value that occurs, in the order of np.unique.
ClassSampleCount(y) == [ k \in DOMAIN Unique(y) |-> SumEqual(y, Unique(y)[k]) ]

\* 1. / count
Reciprocal(count) == Rat(1, count)

\* weight = 1. / class_sample_count
WeightArray(y) ==
    [ k \in DOMAIN ClassSampleCount(y) |-> Reciprocal(ClassSampleCount(y)[k]) ]

\* Whether a[t] is inside the array a, for a label t >= 0.
InBounds(a, t) == t < Len(a)

\* a[t] of a zero-based array.
At(a, t) == a[t + 1]

\* {int(cls): float(1.0 / count) for cls, count in zip(classes, counts)}:
\* the items of the dict in insertion order.
ClassWeightDict(y) ==
    [ k \in DOMAIN Unique(y) |->
        << Unique(y)[k], Reciprocal(ClassSampleCount(y)[k]) >> ]

\* list(class_weights.values())
DictValues(d) == [ k \in DOMAIN d |-> d[k][2] ]

\* torch.clamp(y_pred, min=0.0, max=1.0)
Clamp(p) == IF p < 0 THEN 0 ELSE IF p > One THEN One ELSE p

\* F.relu
Relu(x) == IF x > 0 THEN x ELSE 0

\* F.one_hot(y_true, num_classes)[c]
OneHot(t, c) == IF t = c THEN 1 ELSE 0

\* One entry of positive_loss + lambda_ * negative_loss, in thousandths.
ElementLoss(t, p, c) ==
    LET q   == Clamp(p)
        pos == Relu(MPlus - q) * Relu(MPlus - q) * OneHot(t, c)
        neg == Relu(q - MMinus) * Relu(q - MMinus) * (1 - OneHot(t, c))
    IN  One * pos + Lambda_ * neg

\* loss.mean(dim=1) of one sample: t its target, p its row of y_pred.
SampleMean(t, p) ==
    RatMean([ k \in 1..NumClasses |->
                Rat(ElementLoss(t, p[k], k - 1), One * One * One) ])

\* (y_true_one_hot * class_weights).sum(dim=1) of one sample.  The product
\* broadcasts: a one-entry class_weights multiplies every column.
SampleWeight(t, cw) ==
    RatSum([ k \in 1..NumClasses |->
               RatMul(Rat(OneHot(t, k - 1), 1),
                      IF Len(cw) = 1 THEN cw[1] ELSE cw[k]) ])

\* margin_loss(y_true, y_pred, class_weights=cw)
MarginLoss(yt, yp, cw) ==
    RatMean([ i \in DOMAIN yt |->
                RatMul(SampleMean(yt[i], yp[i]), SampleWeight(yt[i], cw)) ])

\* main() has the training labels.
LossStart ==
    /\ y_train \in TrainLabelSets
    /\ wpc = "sampler"
    /\ weight = <<>>
    /\ samples_weight = <<>>
    /\ class_weights = <<>>
    /\ y_true = <<>>
    /\ y_pred = <<>>
    /\ loss = <<>>

\* The class-weight variables where the specification is about another
\* part of the program.
LossUnused ==
    /\ y_train = <<>>
    /\ wpc = "unused"
    /\ weight = <<>>
    /\ samples_weight = <<>>
    /\ class_weights = <<>>
    /\ y_true = <<>>
    /\ y_pred = <<>>
    /\ loss = <<>>

\* class_sample_count, weight and samples_weight.  weight has one entry for
\* each class that occurs and is indexed with the labels: a label past its
\* end raises IndexError, which leaves main().
SamplerWeights ==
    /\ wpc = "sampler"
    /\ weight' = WeightArray(y_train)
    /\ IF \A i \in DOMAIN y_train : InBounds(weight', y_train[i])
       THEN /\ samples_weight' = [ i \in DOMAIN y_train |-> At(weight', y_train[i]) ]
            /\ wpc' = "class_weights"
       ELSE /\ wpc' = "raised"
            /\ UNCHANGED samples_weight
    /\ UNCHANGED << y_train, class_weights, y_true, y_pred, loss >>
    /\ UNCHANGED notLossVars

\* classes, counts = np.unique(...) and the dict of class weights.
ClassWeights ==
    /\ wpc = "class_weights"
    /\ class_weights' = ClassWeightDict(y_train)
    /\ wpc' = "loss"
    /\ UNCHANGED << y_train, weight, samples_weight, y_true, y_pred, loss >>
    /\ UNCHANGED notLossVars

\* A call margin_loss(target, class_output, class_weights=list(...)) on a
\* batch whose targets are labels of the training set.  margin_loss keeps
\* nothing from one call to the next: one call stands for each of them.
MarginLossCall ==
    /\ wpc = "loss"
    /\ \E n \in 1..MaxBatch :
         \E yt \in [1..n -> Range(y_train)] :
           \E yp \in [1..n -> [1..NumClasses -> PredValues]] :
             /\ y_true' = yt
             /\ y_pred' = yp
             /\ loss' = MarginLoss(yt, yp, DictValues(class_weights))
    /\ wpc' = "called"
    /\ UNCHANGED << y_train, weight, samples_weight, class_weights >>
    /\ UNCHANGED notLossVars

LossNext ==
    \/ SamplerWeights
    \/ ClassWeights
    \/ MarginLossCall

(***************************************************************************)
(* CapsNetWithDecoder.dynamic_routing, for one element of the batch.       *)
(* The tensors hold real numbers; the model holds the expressions that     *)
(* compute them.  A logit is the sequence of the agreements added to zero, *)
(* a coupling coefficient is a softmax over a row of logits, a weighted    *)
(* sum is the bag of its summands (a sum of real numbers does not depend   *)
(* on the order of the summands), an output is the squash of a sum.        *)
(***************************************************************************)
\* routing_iters=3, the default and the value main() passes.
DefaultRoutingIters == 3

\* The values of self.routing_iters that are tried.
RoutingItersArgs == 1..DefaultRoutingIters

\* The input capsules (axis 1 of u_hat) and the output capsules (axis 2).
InputCapsules == {1, 2, 3}

OutputCapsules == {1, 2}

\* The vectors u_hat may hold (axis 3 of u_hat, taken whole).
Vectors == {"p", "q"}

UHats == [InputCapsules -> [OutputCapsules -> Vectors]]

\* What a variable holds before its first assignment.
Unbound == <<>>

\* torch.zeros(batch_size, input_capsules, output_capsules)
ZeroLogits == [ i \in InputCapsules |-> [ j \in OutputCapsules |-> <<>> ] ]

\* F.softmax(b_ij, dim=2): entry (i, j) is a function of row i and of j.
Softmax(b) ==
    [ i \in InputCapsules |->
        [ j \in OutputCapsules |-> [ logits |-> b[i], at |-> j ] ] ]

\* Mutant of WeightedSum: the first input capsule for the sum over axis 1.
FirstSummand(c, u) ==
    [ j \in OutputCapsules |->
        LET first == CHOOSE i \in InputCapsules : \A k \in InputCapsules : i <= k
        IN  [ t \in { [ c |-> c[first][j], u |-> u[first][j] ] } |-> 1 ] ]

\* torch.sum(c_ij.unsqueeze(-1) * u_hat, dim=1): for each output capsule
\* the sum over the input capsules of coefficient times vector.
WeightedSum(c, u) ==
    [ j \in OutputCapsules |->
        LET summand(i) == [ c |-> c[i][j], u |-> u[i][j] ]
        IN  [ t \in { summand(i) : i \in InputCapsules } |->
                Cardinality({ i \in InputCapsules : summand(i) = t }) ] ]

\* self.squash(s_j), for each output capsule.
Squash(s) == [ j \in OutputCapsules |-> [ squash |-> s[j] ] ]

\* torch.sum(u_hat * v_j.unsqueeze(1), dim=-1): the dot product of each
\* u_hat[i][j] with v_j[j].
Agreement(u, v) ==
    [ i \in InputCapsules |->
        [ j \in OutputCapsules |-> [ u |-> u[i][j], v |-> v[j] ] ] ]

\* b_ij + agreement
AddLogits(b, a) ==
    [ i \in InputCapsules |->
        [ j \in OutputCapsules |-> Append(b[i][j], a[i][j]) ] ]

\* Mutant of UpdatesLogits: the logits are updated on the last iteration too.
UpdatesLogitsEveryIteration(it, iters) == it < iters

\* if iteration < self.routing_iters - 1
UpdatesLogits(it, iters) == it < iters - 1

\* for iteration in range(self.routing_iters): whether a value follows it.
RoutingHasNext(it, iters) == it + 1 < iters

\* The loop of dynamic_routing from iteration `it` on, as a function.
RECURSIVE RoutingFrom(_, _, _, _)
RoutingFrom(u, b, it, iters) ==
    LET v == Squash(WeightedSum(Softmax(b), u))
        b1 == IF UpdatesLogits(it, iters) THEN AddLogits(b, Agreement(u, v)) ELSE b
    IN  IF RoutingHasNext(it, iters) THEN RoutingFrom(u, b1, it + 1, iters) ELSE v

\* dynamic_routing(u_hat) as a function, for routing_iters >= 1.
DynamicRouting(u, iters) == RoutingFrom(u, ZeroLogits, 0, iters)

\* The call: the arguments are bound and b_ij is allocated.
RouteStart ==
    /\ u_hat \in UHats
    /\ routing_iters \in RoutingItersArgs
    /\ rpc = "for"
    /\ iteration = 0 - 1
    /\ b_ij = ZeroLogits
    /\ c_ij = Unbound
    /\ s_j = Unbound
    /\ v_j = Unbound
    /\ routed = Unbound

\* The routing variables where the specification is about another part of
\* the program.
RouteUnused ==
    /\ u_hat = Unbound
    /\ routing_iters = DefaultRoutingIters
    /\ rpc = "unused"
    /\ iteration = 0 - 1
    /\ b_ij = Unbound
    /\ c_ij = Unbound
    /\ s_j = Unbound
    /\ v_j = Unbound
    /\ routed = Unbound

\* The for statement yields the next iteration.
NextIteration ==
    /\ rpc = "for"
    /\ RoutingHasNext(iteration, routing_iters)
    /\ iteration' = iteration + 1
    /\ rpc' = "softmax"
    /\ UNCHANGED << u_hat, routing_iters, b_ij, c_ij, s_j, v_j, routed >>
    /\ UNCHANGED notRouteVars

\* c_ij = F.softmax(b_ij, dim=2)
SoftmaxStep ==
    /\ rpc = "softmax"
    /\ c_ij' = Softmax(b_ij)
    /\ rpc' = "sum"
    /\ UNCHANGED << u_hat, routing_iters, iteration, b_ij, s_j, v_j, routed >>
    /\ UNCHANGED notRouteVars

\* s_j = torch.sum(c_ij.unsqueeze(-1) * u_hat, dim=1)
SumStep ==
    /\ rpc = "sum"
    /\ s_j' = WeightedSum(c_ij, u_hat)
    /\ rpc' = "squash"
    /\ UNCHANGED << u_hat, routing_iters, iteration, b_ij, c_ij, v_j, routed >>
    /\ UNCHANGED notRouteVars

\* v_j = self.squash(s_j)
SquashStep ==
    /\ rpc = "squash"
    /\ v_j' = Squash(s_j)
    /\ rpc' = "if"
    /\ UNCHANGED << u_hat, routing_iters, iteration, b_ij, c_ij, s_j, routed >>
    /\ UNCHANGED notRouteVars

\* The if statement that ends the loop body.
LogitsStep ==
    /\ rpc = "if"
    /\ b_ij' = IF UpdatesLogits(iteration, routing_iters)
               THEN AddLogits(b_ij, Agreement(u_hat, v_j))
               ELSE b_ij
    /\ rpc' = "for"
    /\ UNCHANGED << u_hat, routing_iters, iteration, c_ij, s_j, v_j, routed >>
    /\ UNCHANGED notRouteVars

\* range(self.routing_iters) is exhausted: return v_j
ReturnRouting ==
    /\ rpc = "for"
    /\ ~RoutingHasNext(iteration, routing_iters)
    /\ routed' = v_j
    /\ rpc' = "returned"
    /\ UNCHANGED << u_hat, routing_iters, iteration, b_ij, c_ij, s_j, v_j >>
    /\ UNCHANGED notRouteVars

RouteNext ==
    \/ NextIteration
    \/ SoftmaxStep
    \/ SumStep
    \/ SquashStep
    \/ LogitsStep
    \/ ReturnRouting

(***************************************************************************)
(* The Home component: the upload form.  An action is one event handled    *)
(* to its end (to the await, for handleSubmit) and the render after it.    *)
(***************************************************************************)
\* The files the user may pick.
Files == {"scan1.dcm", "scan2.dcm", "scan3.dcm"}

\* e.target.files[0] when the selection is empty.
Undefined == "undefined"

Null == "null"

\* response.data of a fulfilled request.
Predictions == {"Benign 0.6", "Benign 0.9", "Malignant 0.6", "Malignant 0.9"}

\* !file
Falsy(f) == f \in {Null, Undefined}

\* Mutant of SubmitDisabled: disabled={!file}
SubmitDisabledWithoutFile(f, l) == Falsy(f)

\* disabled={!file || loading} of the submit button.
SubmitDisabled(f, l) == Falsy(f) \/ l

\* handleSubmit up to the await, as a function of the state it runs in:
\* the state after it, << loading, requests >>.
AfterSubmit(f, l, r) ==
    IF Falsy(f) THEN << l, r >> ELSE << TRUE, Append(r, f) >>

\* s without its k-th element.
Without(s, k) == SubSeq(s, 1, k - 1) \o SubSeq(s, k + 1, Len(s))

\* The component is mounted.
FormStart ==
    /\ file = Null
    /\ prediction = Null
    /\ loading = FALSE
    /\ requests = <<>>
    /\ settled = "none"

\* handleFileChange: the user picks a file or empties the selection.
FileChange ==
    /\ \E f \in Files \cup {Undefined} : file' = f
    /\ UNCHANGED << prediction, loading, requests, settled >>
    /\ UNCHANGED notFormVars

\* The submit button is pressed, which it can be when it is not disabled:
\* handleSubmit up to the await.
Submit ==
    /\ ~SubmitDisabled(file, loading)
    /\ loading' = AfterSubmit(file, loading, requests)[1]
    /\ requests' = AfterSubmit(file, loading, requests)[2]
    /\ UNCHANGED << file, prediction, settled >>
    /\ UNCHANGED notFormVars

\* A request is fulfilled: setPrediction(response.data), then the finally
\* block.
Fulfilled ==
    /\ \E k \in DOMAIN requests :
         /\ requests' = Without(requests, k)
         /\ \E data \in Predictions : prediction' = data
    /\ loading' = FALSE
    /\ settled' = "fulfilled"
    /\ UNCHANGED file
    /\ UNCHANGED notFormVars

\* A request is rejected: console.error, then the finally block.
Rejected ==
    /\ \E k \in DOMAIN requests : requests' = Without(requests, k)
    /\ loading' = FALSE
    /\ settled' = "rejected"
    /\ UNCHANGED << file, prediction >>
    /\ UNCHANGED notFormVars

FormNext ==
    \/ FileChange
    \/ Submit
    \/ Fulfilled
    \/ Rejected

\* The form variables where the specification is about another part of
\* the program.
FormUnused == FormStart

(***************************************************************************)
(* Specifications                                                          *)
(***************************************************************************)
Init == LoadDone /\ TrainStart /\ LossUnused /\ RouteUnused /\ FormUnused

Next ==
    \/ StartEpoch
    \/ TrainBatch
    \/ EndTrain
    \/ ValBatch
    \/ EndEpoch
    \/ ExhaustEpochs
    \/ FinishTraining

\* The training loop of main().
Spec == Init /\ [][Next]_vars

\* The training loop when main() is not stopped from outside: a step that
\* can be taken is taken.
FairSpec == Spec /\ WF_vars(Next)

\* load_nodule_data.
LoadInit == LoadStart /\ TrainStart /\ LossUnused /\ RouteUnused /\ FormUnused

LoadSpec == LoadInit /\ [][LoadNext]_vars

\* The class weights of main() and the calls of margin_loss.
LossInit == LoadDone /\ TrainStart /\ LossStart /\ RouteUnused /\ FormUnused

LossSpec == LossInit /\ [][LossNext]_vars

\* One call of dynamic_routing.
RouteInit == LoadDone /\ TrainStart /\ LossUnused /\ RouteStart /\ FormUnused

RouteSpec == RouteInit /\ [][RouteNext]_vars

\* The Home component from mount on.
FormInit == LoadDone /\ TrainStart /\ LossUnused /\ RouteUnused /\ FormStart

FormSpec == FormInit /\ [][FormNext]_vars

(***************************************************************************)
(* Properties of the training loop.  They are stated over the recorded     *)
(* validation losses, not over the loop's own bookkeeping.                 *)
(***************************************************************************)
\* Whether the k-th recorded validation loss improved on the best seen
\* before it: it is a number below every number recorded before it (the
\* best starts at infinity, and a NaN is below nothing).
ImprovedAt(h, k) ==
    /\ h[k] # NaN
    /\ \A j \in 1..(k - 1) : h[j] = NaN \/ h[k] < h[j]

\* The last of the first k epochs whose validation loss improved, 0 if none.
LastImprovedEpoch(h, k) ==
    LET imp == { j \in 1..k : ImprovedAt(h, j) }
    IN  IF imp = {} THEN 0 ELSE CHOOSE j \in imp : \A i \in imp : i <= j

\* For how many epochs in a row the loss has failed to improve, after k epochs.
StalledFor(h, k) == k - LastImprovedEpoch(h, k)

\* The epochs whose body has run to its end.
EpochsCompleted == IF pc \in {"train", "validate"} THEN epoch ELSE epoch + 1

LoopOver == pc \in {"after_loop", "done"}

IsPrefix(s, t) == Len(s) <= Len(t) /\ SubSeq(t, 1, Len(s)) = s

\* C1: training halts at the end of the first epoch at which the validation
\* loss has failed to improve for `patience` epochs in a row: no epoch
\* before the last recorded one was such an epoch, the loop is over as soon
\* as the last one is, and a loop that is over before num_epochs epochs has
\* a stall of `patience` epochs behind it (and the counter says so).
C1_EarlyStopping ==
    LET h == history.val_loss
        n == Len(h)
    IN  /\ \A k \in 1..(n - 1) : StalledFor(h, k) < patience
        /\ (~LoopOver /\ EpochsCompleted = n) => StalledFor(h, n) < patience
        /\ (LoopOver /\ n < num_epochs) =>
               /\ StalledFor(h, n) = patience
               /\ epochs_no_improve >= patience

\* C1 witness: the loop broke before num_epochs, `patience` epochs after an
\* epoch that improved.
C1_Witness ==
    /\ pc = "done"
    /\ Len(history.val_loss) < num_epochs
    /\ Len(history.val_loss) > patience
    /\ LastImprovedEpoch(history.val_loss, Len(history.val_loss)) > 0

\* C2: when main() is through, the parameters the model holds, those
\* evaluate_model() ran with and those written to the file are the
\* parameters as they were at the end of the last epoch whose validation
\* loss improved (TrainBatches optimizer steps per epoch), the initial
\* parameters if no epoch improved.
C2_FinalWeightsAreBest ==
    pc = "done" =>
        LET h    == history.val_loss
            best == LastImprovedEpoch(h, Len(h)) * TrainBatches
        IN  /\ weights = best
            /\ eval_wts = best
            /\ saved = best

\* C2 witness: the saved parameters are those of an epoch that is neither
\* the last one run nor the start.
C2_Witness ==
    /\ pc = "done"
    /\ saved > 0
    /\ saved < Len(history.val_loss) * TrainBatches
    /\ Len(history.val_loss) = num_epochs

\* C3: an epoch's end either replaces best_loss and the snapshot and resets
\* the counter (the loss improved), or adds 1 to the counter and leaves
\* best_loss and the snapshot alone; no other step changes any of the three.
C3_EpochEndStep ==
    LET h  == history'.val_loss
        n  == Len(h)
    IN  IF n = Len(history.val_loss) + 1
        THEN IF ImprovedAt(h, n)
             THEN /\ best_loss' = h[n]
                  /\ best_model_wts' = weights
                  /\ epochs_no_improve' = 0
             ELSE /\ epochs_no_improve' = epochs_no_improve + 1
                  /\ best_loss' = best_loss
                  /\ best_model_wts' = best_model_wts
        ELSE /\ history' = history
             /\ UNCHANGED << best_loss, best_model_wts, epochs_no_improve >>

C3_SnapshotOnlyOnImprovement == [][C3_EpochEndStep]_vars

\* C3 witness: an epoch that improved was followed by one that tied with it
\* and by training steps of the next epoch; the snapshot is still the one
\* of the improving epoch.
C3_Witness ==
    /\ pc = "validate"
    /\ epochs_no_improve = 1
    /\ Len(history.val_loss) = 2
    /\ history.val_loss[1] = history.val_loss[2]
    /\ best_model_wts = TrainBatches
    /\ weights = 3 * TrainBatches

\* C4: the loop ends, after at most num_epochs epochs, and after fewer only
\* with the counter at patience.
C4_Terminates ==
    /\ <>(pc = "done")
    /\ [](/\ Len(history.val_loss) <= num_epochs
          /\ epoch + 1 <= num_epochs
          /\ (LoopOver /\ Len(history.val_loss) < num_epochs) =>
                 epochs_no_improve >= patience)

\* C4 witness: all num_epochs epochs were run and the counter is below patience.
C4_Witness ==
    /\ pc = "done"
    /\ Len(history.val_loss) = num_epochs
    /\ epochs_no_improve < patience

\* C5: the five series have one entry per completed epoch, entries are
\* only ever appended, and none is appended once the loop is over.
C5_Lengths ==
    /\ Len(history.train_loss) = EpochsCompleted
    /\ Len(history.val_loss) = EpochsCompleted
    /\ Len(history.train_accuracy) = EpochsCompleted
    /\ Len(history.val_accuracy) = EpochsCompleted
    /\ Len(history.learning_rate) = EpochsCompleted

C5_Grows ==
    /\ IsPrefix(history.train_loss, history'.train_loss)
    /\ IsPrefix(history.val_loss, history'.val_loss)
    /\ IsPrefix(history.train_accuracy, history'.train_accuracy)
    /\ IsPrefix(history.val_accuracy, history'.val_accuracy)
    /\ IsPrefix(history.learning_rate, history'.learning_rate)
    /\ LoopOver => history' = history

C5_HistoryAppendOnly == [](C5_Lengths) /\ [][C5_Grows]_vars

\* C5 witness: the epoch at which early stopping triggered is recorded.
C5_Witness ==
    /\ pc = "done"
    /\ epochs_no_improve = patience
    /\ Len(history.learning_rate) = patience + 1
    /\ Len(history.train_loss) = patience + 1
    /\ history.val_loss[1] # history.val_loss[2]

(***************************************************************************)
(* Properties of load_nodule_data.                                         *)
(***************************************************************************)
\* The step that processes one nodule.
NoduleProcessed == stats'.total_nodules = stats.total_nodules + 1

\* The positions in scans[:max_scans] at which a scan id occurs for the
\* first time.
FirstOccurrences ==
    { i \in DOMAIN ScanSlice : \A j \in 1..(i - 1) : ScanSlice[j] # ScanSlice[i] }

\* The ratings of a nodule's annotations that carry one, as a bag of
\* positions: how many there are and what they add up to.
RatedPositions(n) == { i \in DOMAIN n.ratings : n.ratings[i] # None }

RECURSIVE SumAt(_, _)
SumAt(r, P) ==
    IF P = {} THEN 0
    ELSE LET i == CHOOSE x \in P : TRUE IN r[i] + SumAt(r, P \ {i})

\* How many entries of a sequence equal v.
Count(s, v) == Cardinality({ i \in DOMAIN s : s[i] = v })

\* C6: scans are deduplicated by id: no more scans are counted than there
\* are distinct ids among scans[:max_scans], and every patch comes from
\* the first occurrence of its scan.
C6_ScansDeduplicated ==
    /\ stats.total_scans <= Cardinality({ ScanSlice[i] : i \in DOMAIN ScanSlice })
    /\ \A k \in DOMAIN nodule_images : nodule_images[k][1] \in FirstOccurrences

\* C7: a nodule without any rating, or whose processing raises, adds
\* exactly 1 to discarded_nodules, appends neither an image nor a label,
\* and leaves the loop running with the next nodule; an exception leaves
\* load_nodule_data only from the head of the scan loop.
C7_FailureStep ==
    /\ (NoduleProcessed /\ (RatedPositions(nodule') = {} \/ nodule'.raises)) =>
           /\ stats'.discarded_nodules = stats.discarded_nodules + 1
           /\ stats'.benign_nodules = stats.benign_nodules
           /\ stats'.malignant_nodules = stats.malignant_nodules
           /\ nodule_images' = nodule_images
           /\ labels' = labels
           /\ lpc' = "nodule"
           /\ nodule_i' = nodule_i + 1
           /\ UNCHANGED << scan_idx, n_clusters >>
    /\ lpc' = "raised" => lpc = "scan"

C7_NoduleFailureContained == [][C7_FailureStep]_vars

\* C7 witness: the only nodule so far had a rating and a finite centroid and
\* raised; it was discarded, and the loop has gone on to a later scan.
C7_Witness ==
    /\ nodule.raises
    /\ RatedPositions(nodule) # {}
    /\ nodule.centroid = "finite"
    /\ stats.total_nodules = 1
    /\ stats.discarded_nodules = 1
    /\ nodule_images = <<>>
    /\ scan_idx >= 1
    /\ lpc = "nodule"

\* C8: a nodule whose averaged centroid has a NaN or an infinite coordinate
\* is discarded and emits nothing.
C8_NonFiniteStep ==
    (NoduleProcessed /\ nodule'.centroid \in {"nan", "inf"}) =>
        /\ stats'.discarded_nodules = stats.discarded_nodules + 1
        /\ nodule_images' = nodule_images
        /\ labels' = labels

C9_LabelStep ==
    Len(labels') = Len(labels) + 1 =>
        LET n == nodule'
            P == RatedPositions(n)
        IN  /\ NoduleProcessed
            /\ P # {}
            /\ labels' = Append(labels,
                   IF SumAt(n.ratings, P) >= 3 * Cardinality(P) THEN 1 ELSE 0)

C9_LabelIsThresholdedMean == [][C9_LabelStep]_vars

\* C9 witness: a nodule with ratings 5, none, 1 (mean 3 over the two that
\* are present) was kept as malignant.
C9_Witness ==
    /\ lpc = "nodule"
    /\ nodule.ratings = << 5, None, 1 >>
    /\ nodule_images # <<>>
    /\ Last(nodule_images) = Patch(scan_idx + 1, nodule_i)
    /\ Last(labels) = 1

\* C10: a valid nodule appends exactly one image and one label, at the same
\* index and at the end; and when every nodule was valid, what is returned
\* holds one pair per nodule in processing order, the benign and malignant
\* counters are the numbers of 0 and 1 labels, and nothing is discarded.
C10_ValidStep ==
    (NoduleProcessed /\ ValidNodule(nodule')) =>
        /\ nodule_images' = Append(nodule_images, << scan_idx + 1, nodule_i + 1 >>)
        /\ Len(labels') = Len(labels) + 1
        /\ SubSeq(labels', 1, Len(labels)) = labels
        /\ Len(labels') = Len(nodule_images')

C10_Returned ==
    (lpc = "returned" /\ all_valid) =>
        /\ Len(nodule_images) = stats.total_nodules
        /\ Len(labels) = stats.total_nodules
        /\ \A i, j \in DOMAIN nodule_images :
               i < j => \/ nodule_images[i][1] < nodule_images[j][1]
                        \/ /\ nodule_images[i][1] = nodule_images[j][1]
                           /\ nodule_images[i][2] < nodule_images[j][2]
        /\ \A i \in DOMAIN labels : labels[i] \in {0, 1}
        /\ stats.benign_nodules = Count(labels, 0)
        /\ stats.malignant_nodules = Count(labels, 1)
        /\ stats.discarded_nodules = 0

C10_OnePairPerValidNodule == [](C10_Returned) /\ [][C10_ValidStep]_vars

\* C10 witness: four scans with one nodule each, two benign and two
\* malignant, returned as four pairs with no discard.
C10_Witness ==
    /\ lpc = "returned"
    /\ all_valid
    /\ stats.total_scans = 4
    /\ stats.total_nodules = 4
    /\ Len(nodule_images) = 4
    /\ Count(labels, 0) = 2
    /\ Count(labels, 1) = 2
    /\ stats.benign_nodules = 2
    /\ stats.malignant_nodules = 2
    /\ stats.discarded_nodules = 0

(***************************************************************************)
(* Further properties of the training loop and of load_nodule_data.        *)
(***************************************************************************)
\* The optimizer steps taken when every batch of train_loader has been
\* processed in each of the first k epochs.
StepsAfterEpochs(k) == k * TrainBatches

\* C13, first half: within each epoch all training batches are processed
\* before any validation batch.  While the training batches run, the
\* parameters have had one optimizer step per training batch so far; from
\* the first validation batch to the end of the epoch they have had one per
\* training batch of the epoch, so no validation batch comes before a
\* training batch of its epoch.
C13_Order ==
    /\ pc = "train" => weights = StepsAfterEpochs(epoch) + batch
    /\ pc = "validate" => weights = StepsAfterEpochs(epoch + 1)
    /\ pc = "epoch" => weights = StepsAfterEpochs(epoch + 1)

\* C13, second half: inside the loop the live parameters are changed only
\* by the step of a training batch: a validation batch, the appends to
\* history, the snapshot and the scheduler step leave them as they are.
C13_Frame ==
    (~LoopOver /\ weights' # weights) =>
        /\ pc = "train"
        /\ pc' = "train"
        /\ batch' = batch + 1
        /\ UNCHANGED << history, best_model_wts, val_loss, val_correct >>

\* C13: all training batches of an epoch precede its validation batches,
\* and only training batches change the live parameters.
C13_OnlyTrainingChangesWeights == [](C13_Order) /\ [][C13_Frame]_vars

\* C13 witness: the second epoch has run all its validation batches after
\* all its training batches, a snapshot was taken in the first epoch and
\* one entry of history was recorded.
C13_Witness ==
    /\ pc = "validate"
    /\ epoch = 1
    /\ batch = ValBatches
    /\ weights = StepsAfterEpochs(2)
    /\ best_model_wts = StepsAfterEpochs(1)
    /\ Len(history.val_loss) = 1

\* C16: between two nodules every nodule seen so far is accounted for once:
\* total_nodules = benign_nodules + malignant_nodules + discarded_nodules,
\* and there are as many images as labels, benign_nodules +
\* malignant_nodules of each.
C16_NodulesAccounted ==
    /\ stats.total_nodules =
           stats.benign_nodules + stats.malignant_nodules + stats.discarded_nodules
    /\ Len(nodule_images) = Len(labels)
    /\ Len(labels) = stats.benign_nodules + stats.malignant_nodules
    /\ Count(labels, 1) = stats.malignant_nodules
    /\ Count(labels, 0) = stats.benign_nodules

\* C16 witness: the loop is between two nodules, with a benign, a malignant
\* and a discarded nodule behind it and one more to come.
C16_Witness ==
    /\ lpc = "nodule"
    /\ nodule_i < n_clusters
    /\ stats.total_nodules = 3
    /\ stats.benign_nodules = 1
    /\ stats.malignant_nodules = 1
    /\ stats.discarded_nodules = 1

\* The recorded validation losses that are numbers.
Numbers(h) == { k \in DOMAIN h : h[k] # NaN }

\* The epochs completed since the first of the epochs in P whose loss is v.
SinceFirst(h, P, v) ==
    Len(h) - (CHOOSE k \in P : h[k] = v /\ \A j \in P : h[j] = v => k <= j)

\* C17 as stated: after every completed epoch best_loss is the minimum of
\* the validation losses in history, the stall counter is the number of
\* epochs completed since the first epoch that attained it, and the stall
\* counter is below patience whenever a new epoch starts.
C17_BestIsMinimumOfHistory ==
    LET h == history.val_loss
    IN  /\ Len(h) >= 1 =>
              /\ \E k \in DOMAIN h : h[k] = best_loss
              /\ \A k \in DOMAIN h : ~Less(h[k], best_loss)
              /\ epochs_no_improve = SinceFirst(h, DOMAIN h, best_loss)
        /\ pc = "train" => epochs_no_improve < patience

\* C17, amended: after every completed epoch best_loss is the minimum of
\* the recorded validation losses that are numbers, and infinity when every
\* recorded loss is NaN; the stall counter is the number of epochs completed
\* since the first epoch that attained that minimum, and the number of all
\* completed epochs when none did; an equal loss later on does not reset
\* it; it is below patience whenever a new epoch starts.
C17_BestIsMinimumNumber ==
    LET h == history.val_loss
    IN  /\ Len(h) >= 1 =>
              IF Numbers(h) = {}
              THEN /\ best_loss = Inf
                   /\ epochs_no_improve = Len(h)
              ELSE /\ \E k \in Numbers(h) : h[k] = best_loss
                   /\ \A k \in Numbers(h) : best_loss <= h[k]
                   /\ epochs_no_improve = SinceFirst(h, Numbers(h), best_loss)
        /\ pc = "train" => epochs_no_improve < patience

\* C17 witness: a NaN, then the minimum, then a NaN and the minimum again:
\* the counter stands at 2 when the fifth epoch starts.
C17_Witness ==
    /\ pc = "train"
    /\ history.val_loss = << NaN, 1, NaN, 1 >>
    /\ best_loss = 1
    /\ epochs_no_improve = 2

(***************************************************************************)
(* Properties of the class weights and of margin_loss.                     *)
(***************************************************************************)
\* 1 / count of class c among the training labels.
InverseFrequency(c) == Rat(1, SumEqual(y_train, c))

\* C11: the weights are the inverse class frequencies of the training
\* labels in both mechanisms, for every training label set over {0, 1}: the
\* sampler weights are computed (nothing is raised), the weight of each
\* training sample is 1 / count of its class, and margin_loss multiplies
\* the per-sample loss of a sample of class c by 1 / count(c).
C11_InverseFrequencyWeights ==
    /\ wpc # "raised"
    /\ wpc \in {"class_weights", "loss", "called"} =>
           \A i \in DOMAIN y_train :
               samples_weight[i] = InverseFrequency(y_train[i])
    /\ wpc \in {"loss", "called"} =>
           \A c \in Range(y_train) :
               SampleWeight(c, DictValues(class_weights)) = InverseFrequency(c)
    /\ wpc = "called" =>
           loss = RatMean([ i \in DOMAIN y_true |->
                              RatMul(SampleMean(y_true[i], y_pred[i]),
                                     InverseFrequency(y_true[i])) ])

\* class_weights=[1.0, 1.0]
AllOnes == [ k \in 1..NumClasses |-> Rat(1, 1) ]

\* C12: for a training set with as many benign as malignant labels,
\* margin_loss with the class weights of that set returns what margin_loss
\* with all-ones class weights returns, for every batch.
C12_BalancedWeightsAreNeutral ==
    (/\ wpc = "called"
     /\ SumEqual(y_train, 0) = SumEqual(y_train, 1)) =>
        loss = MarginLoss(y_true, y_pred, AllOnes)

(***************************************************************************)
(* Properties of dynamic_routing.                                          *)
(***************************************************************************)
\* u with its input capsules (axis 1) reordered by pi.
PermuteInputs(u, pi) == [ i \in InputCapsules |-> u[pi[i]] ]

\* C14: with the logits initialised to zero and at least one iteration,
\* the output of dynamic_routing is unchanged when the input capsules are
\* permuted: what the call returned for u_hat is what dynamic_routing gives
\* for every reordering of u_hat along axis 1.
C14_PermutationInvariant ==
    rpc = "returned" =>
        \A pi \in Permutations(InputCapsules) :
            DynamicRouting(PermuteInputs(u_hat, pi), routing_iters) = routed

\* C14 witness: three iterations have returned for an input whose capsules
\* differ from each other, so that a permutation changes the input.
C14_Witness ==
    /\ rpc = "returned"
    /\ routing_iters = DefaultRoutingIters
    /\ u_hat[1] # u_hat[2]
    /\ u_hat[2] # u_hat[3]
    /\ u_hat[1] # u_hat[3]
    /\ u_hat[1][1] # u_hat[1][2]

\* The outputs one iteration computes from the logits b.
OutputsOf(b) == Squash(WeightedSum(Softmax(b), u_hat))

\* The logits b after their first k updates.
FirstUpdates(b, k) ==
    [ i \in InputCapsules |-> [ j \in OutputCapsules |-> SubSeq(b[i][j], 1, k) ] ]

\* C15, the states.  The first iteration runs on logits that are all zero.
\* Inside iteration n the logits have had n updates.  After the return the
\* loop variable has gone through 0 .. routing_iters - 1, every logit has
\* had routing_iters - 1 updates, the k-th of which added the agreement
\* with the outputs of iteration k, and the value returned is the outputs
\* of the last iteration, computed from the logits as they stand.
C15_State ==
    /\ rpc = "for" /\ iteration < 0 => b_ij = ZeroLogits
    /\ rpc \in {"softmax", "sum", "squash", "if"} /\ iteration = 0 =>
           b_ij = ZeroLogits
    /\ rpc \in {"softmax", "sum", "squash", "if"} =>
           \A i \in InputCapsules, j \in OutputCapsules :
               Len(b_ij[i][j]) = iteration
    /\ rpc = "returned" =>
           /\ iteration = routing_iters - 1
           /\ \A i \in InputCapsules, j \in OutputCapsules :
                  /\ Len(b_ij[i][j]) = routing_iters - 1
                  /\ \A k \in 1..(routing_iters - 1) :
                         b_ij[i][j][k] =
                             [ u |-> u_hat[i][j],
                               v |-> OutputsOf(FirstUpdates(b_ij, k - 1))[j] ]
           /\ routed = OutputsOf(b_ij)

\* C15, the steps.  An iteration is softmax, then the weighted sum of what
\* softmax gave, then the squash of that sum, then the update; the logits
\* change in the update of every iteration but the last and nowhere else.
C15_Step ==
    /\ rpc = "for" /\ rpc' # "returned" => iteration' = iteration + 1 /\ rpc' = "softmax"
    /\ rpc = "softmax" => rpc' = "sum" /\ c_ij' = Softmax(b_ij)
    /\ rpc = "sum" => rpc' = "squash" /\ s_j' = WeightedSum(c_ij', u_hat)
    /\ rpc = "squash" => rpc' = "if" /\ v_j' = Squash(s_j')
    /\ rpc = "if" =>
           /\ rpc' = "for"
           /\ (b_ij' # b_ij) = (iteration < routing_iters - 1)
    /\ b_ij' # b_ij => rpc = "if" /\ b_ij' = AddLogits(b_ij, Agreement(u_hat, v_j))
    /\ rpc' = "returned" => iteration + 1 = routing_iters /\ routed' = v_j

\* C15: dynamic_routing starts from zero logits, runs exactly routing_iters
\* iterations of softmax, weighted sum and squash in that order, updates
\* the logits after every iteration except the last, and returns the
\* outputs of the last iteration.
C15_RoutingSchedule == [](C15_State) /\ [][C15_Step]_vars

\* C15 witness: a call with three iterations has returned after two
\* updates of the logits.
C15_Witness ==
    /\ rpc = "returned"
    /\ routing_iters = 3
    /\ iteration = 2
    /\ \A i \in InputCapsules, j \in OutputCapsules : Len(b_ij[i][j]) = 2
    /\ routed = v_j

(***************************************************************************)
(* Properties of the Home upload form.                                     *)
(***************************************************************************)
\* C18, the states: loading is true exactly while a request is outstanding,
\* at most one request is outstanding, and handleSubmit run with no file
\* selected (null or undefined) sends nothing and changes nothing.
C18_State ==
    /\ loading = (requests # <<>>)
    /\ Len(requests) <= 1
    /\ \A f \in {Null, Undefined} :
           AfterSubmit(f, loading, requests) = << loading, requests >>

\* C18, the steps: a request is sent only for a selected file, by a step
\* that changes nothing else but loading; a request that settles brings
\* loading back to false; prediction changes only when a request is
\* fulfilled, so a rejected request and a file selection leave it as it is.
C18_Step ==
    /\ Len(requests') > Len(requests) =>
           /\ ~Falsy(file)
           /\ requests' = Append(requests, file)
           /\ loading'
           /\ UNCHANGED << file, prediction >>
    /\ Len(requests') < Len(requests) => ~loading'
    /\ prediction' # prediction =>
           /\ Len(requests') < Len(requests)
           /\ settled' = "fulfilled"
           /\ prediction' \in Predictions
    /\ Len(requests') < Len(requests) /\ settled' = "rejected" =>
           UNCHANGED prediction
    /\ file' # file => UNCHANGED << prediction, loading, requests >>

\* C18: over every interleaving of file selections, submits and responses,
\* loading is true exactly while a request is outstanding, a submit with no
\* file sends no request and changes no state, and prediction changes only
\* when a request is fulfilled.
C18_LoadingTracksRequest == [](C18_State) /\ [][C18_Step]_vars

\* C18 witness: a prediction is on display from a fulfilled request, a
\* later request has been rejected, another file was selected since and a
\* new request for it is outstanding.
C18_Witness ==
    /\ prediction \in Predictions
    /\ settled = "rejected"
    /\ loading
    /\ requests = << "scan2.dcm" >>
    /\ file = "scan3.dcm"

====
